---- MODULE Spec2Model ----
(***************************************************************************)
(* Model of the S101 stream framing decoder of libs101                     *)
(* (libs101/Headers/s101/StreamDecoder.hpp): the decoder object, its       *)
(* operations reset, readByte and read, and the callback it invokes.       *)
(***************************************************************************)
EXTENDS Integers, Sequences, FiniteSets, TLC

VARIABLES
    dec,      \* the decoder object: [m_bytes, m_escape, m_crc]
    calls,    \* the callback invocations made by dec so far, oldest first
    input,    \* the byte given to the last readByte (-1: none, or reset())
    before,   \* dec as it was when the last operation started
    fired,    \* how many callback invocations the last operation made
    raw,      \* the raw bytes consumed since the last reset that preceded
              \* the last operation (the last byte included)
    closed,   \* the last operation ended with a reset
    n,        \* the number of operations performed so far
    ref,      \* a second decoder with its own callback log: [d, calls]
    stream,   \* the bytes still to be fed (scenarios with a prepared stream)
    plan,     \* what the scenario prepared (payloads, frames, histories)
    mode,     \* the scenario and its phase
    obj,      \* the object of the scenarios without a decoder: a glow node
              \* (GlowInvocation, GlowFunctionBase) or a ByteBuffer
    ret,      \* what the last operation on obj returned or signalled
    op,       \* the last operation on obj, with its arguments
    was,      \* obj as it was when the last operation started
    ops       \* the number of operations performed on obj so far

vars == <<dec, calls, input, before, fired, raw, closed, n, ref, stream, plan, mode,
          obj, ret, op, was, ops>>

(* The variables of the decoder scenarios, and those of the others. *)
s101Vars == <<dec, calls, input, before, fired, raw, closed, n, ref, stream, plan, mode>>

objVars == <<obj, ret, op, was, ops>>

(* No object: the scenario has a decoder only. *)
NoObject ==
    /\ obj = <<>>
    /\ ret = <<>>
    /\ op = <<>>
    /\ was = <<>>
    /\ ops = 0

----------------------------------------------------------------------------
(* Bounds of the model. *)

\* The number of operations one behaviour of Spec performs.
MaxInput == 7

\* The longest payload of the round trip scenario (SpecRT).
MaxPayload == 3

\* The longest payload of the frame a bit is flipped in (SpecFlip).
MaxFlipPayload == 2

\* The number of frames of the stream of SpecFrames, and the longest payload
\* of each.
MaxFrames == 2
MaxBody == 1

\* The longest history of each decoder of SpecPair, and the longest common
\* continuation.
MaxHist == 3
MaxCont == 4

\* SpecChunk: the longest chunk given to read, and the number of bytes fed.
MaxChunk == 3
MaxStream == 4

\* SpecToken: the longest chunk given to read, and the number of bytes fed.
MaxTokenChunk == 2
MaxTokenStream == 6

\* SpecGlow: the number of operations on the glow node, and the longest
\* sequence of values given to setTypedArguments.
MaxOps == 3
MaxArgs == 2

\* SpecBuffer: the largest size a ByteBuffer is initialised with or resized to.
MaxCapacity == 2

\* SpecCodec: how far around each boundary of the encodings (127/128, 30/31,
\* 65535/65536, ...) the values to encode are taken, and the longest string.
MaxDelta == 2
MaxString == 2

\* SpecBare: the longest payload of a frame sent without a start marker.
MaxBarePayload == 2

----------------------------------------------------------------------------
(* Byte.hpp: the reserved bytes of the framing. *)

BoF == 254
EoF == 255
CE == 253
XOR == 32

\* The freshly initialised checksum and the residue of a valid frame.
CrcInit == 65535
CrcValid == 61624

Front(s) == SubSeq(s, 1, Len(s) - 1)

(* All sequences over S of length at most k. *)
SeqsUpTo(S, k) == UNION {[1..m -> S] : m \in 0..k}

(* Bitwise exclusive or of two naturals (the C++ operator ^). *)
RECURSIVE BitXor(_, _)
BitXor(a, b) ==
    IF a = 0 THEN b
    ELSE IF b = 0 THEN a
    ELSE (((a % 2) + (b % 2)) % 2) + 2 * BitXor(a \div 2, b \div 2)

(* One bit step of the reflected CCITT CRC-16 (polynomial 0x8408). *)
RECURSIVE CrcShift(_, _)
CrcShift(c, k) ==
    IF k = 0 THEN c
    ELSE CrcShift(IF c % 2 = 1 THEN BitXor(c \div 2, 33800) ELSE c \div 2, k - 1)

(* util::Crc16::table, the 256 entries of the byte-wise CRC. *)
Crc16Table == [i \in 0..255 |-> CrcShift(i, 8)]

(* util::Crc16::add(crc, byte): (crc >> 8) ^ table[(crc ^ byte) & 0xFF]. *)
Crc16Add(crc, byte) ==
    BitXor(crc \div 256, Crc16Table[BitXor(crc, byte) % 256]) % 65536

----------------------------------------------------------------------------
(* The decoder. *)

(* StreamDecoder::StreamDecoder(): m_bytes is default constructed. *)
StreamDecoder_crcZero == [m_bytes |-> <<>>, m_escape |-> FALSE, m_crc |-> 0]

StreamDecoder == [m_bytes |-> <<>>, m_escape |-> FALSE, m_crc |-> CrcInit]

reset_keepCrc(d) == [m_bytes |-> <<>>, m_escape |-> FALSE, m_crc |-> d.m_crc]

reset_keepBytes(d) == [m_bytes |-> d.m_bytes, m_escape |-> FALSE, m_crc |-> CrcInit]

(* StreamDecoder::reset(). *)
reset(d) == [m_bytes |-> <<>>, m_escape |-> FALSE, m_crc |-> CrcInit]

unescaped_identity(byte) == byte

(* byte ^ Byte::XOR *)
unescaped(byte) == BitXor(byte, XOR)

onEscaped_keepFlag(d, byte) ==
    [m_bytes  |-> Append(d.m_bytes, unescaped(byte)),
     m_escape |-> TRUE,
     m_crc    |-> Crc16Add(d.m_crc, unescaped(byte))]

(* readByte, the branch taken when m_escape is set. *)
onEscaped(d, byte) ==
    [m_bytes  |-> Append(d.m_bytes, unescaped(byte)),
     m_escape |-> FALSE,
     m_crc    |-> Crc16Add(d.m_crc, unescaped(byte))]

(* readByte, case Byte::CE. *)
onCE(d) == [d EXCEPT !.m_escape = TRUE]

onData_noCrc(d, byte) ==
    [m_bytes  |-> Append(d.m_bytes, byte),
     m_escape |-> d.m_escape,
     m_crc    |-> d.m_crc]

(* readByte, the default case. *)
onData(d, byte) ==
    [m_bytes  |-> Append(d.m_bytes, byte),
     m_escape |-> d.m_escape,
     m_crc    |-> Crc16Add(d.m_crc, byte)]

frameValid_moreThanTwo(d) == d.m_crc = CrcValid /\ Len(d.m_bytes) > 2

frameValid_noCrc(d) == Len(d.m_bytes) > 1

(* readByte, case Byte::EoF: the condition of the callback. *)
frameValid(d) == d.m_crc = CrcValid /\ Len(d.m_bytes) > 1

callbackRange_keepCrc(d) ==
    [first |-> 0, last |-> Len(d.m_bytes),
     data  |-> d.m_bytes]

(* The arguments of the callback: m_bytes.begin() and m_bytes.end() - 2 as   *)
(* offsets from begin(), and the bytes that range holds.                     *)
callbackRange(d) ==
    [first |-> 0, last |-> Len(d.m_bytes) - 2,
     data  |-> SubSeq(d.m_bytes, 1, Len(d.m_bytes) - 2)]

onEoF_resetIfValid(d) ==
    IF frameValid(d) THEN [d |-> reset(d), cb |-> <<callbackRange(d)>>]
    ELSE [d |-> d, cb |-> <<>>]

(* readByte, case Byte::EoF: the callback if the frame is valid, then reset. *)
onEoF(d) ==
    [d  |-> reset(d),
     cb |-> IF frameValid(d) THEN <<callbackRange(d)>> ELSE <<>>]

readByte_callbackOnBoF(d, in) ==
    LET byte == in % 256
    IN  IF d.m_escape THEN [d |-> onEscaped(d, byte), cb |-> <<>>]
        ELSE IF byte = BoF THEN onEoF(d)
        ELSE IF byte = EoF THEN onEoF(d)
        ELSE IF byte = CE THEN [d |-> onCE(d), cb |-> <<>>]
        ELSE [d |-> onData(d, byte), cb |-> <<>>]

(* StreamDecoder::readByte(input, callback, state): the decoder afterwards   *)
(* (d) and the callback invocations made (cb).                               *)
readByte(d, in) ==
    LET byte == in % 256
    IN  IF d.m_escape THEN [d |-> onEscaped(d, byte), cb |-> <<>>]
        ELSE IF byte = BoF THEN [d |-> reset(d), cb |-> <<>>]
        ELSE IF byte = EoF THEN onEoF(d)
        ELSE IF byte = CE THEN [d |-> onCE(d), cb |-> <<>>]
        ELSE [d |-> onData(d, byte), cb |-> <<>>]

RECURSIVE read_resetFirst(_, _)
read_resetFirst(d, chunk) ==
    IF chunk = <<>> THEN [d |-> reset(d), cb |-> <<>>]
    ELSE LET r    == read_resetFirst(d, Front(chunk))
             last == readByte(r.d, chunk[Len(chunk)])
         IN  [d |-> last.d, cb |-> r.cb \o last.cb]

(* StreamDecoder::read(first, last, callback, state): readByte on every byte *)
(* of the range, in order.                                                   *)
RECURSIVE read(_, _)
read(d, chunk) ==
    IF chunk = <<>> THEN [d |-> d, cb |-> <<>>]
    ELSE LET r    == readByte(d, Head(chunk))
             rest == read(r.d, Tail(chunk))
         IN  [d |-> rest.d, cb |-> r.cb \o rest.cb]

----------------------------------------------------------------------------
(* Spec: one decoder, fed byte by byte with any byte of Alphabet, and reset  *)
(* at any time.                                                              *)

\* 0x00, 0x01, 0xDF (0xFF escaped) and the three reserved bytes.  The frame
\* of the empty payload is 00 00 FF and that of the payload <<0xFF>> is
\* FD DF 00 FD DF FF.
Alphabet == {0, 1, 223, CE, BoF, EoF}

NoDecoder == [d |-> StreamDecoder, calls |-> <<>>, todo |-> <<>>, closed |-> FALSE]

Init ==
    /\ dec = StreamDecoder
    /\ calls = <<>>
    /\ input = -1
    /\ before = StreamDecoder
    /\ fired = 0
    /\ raw = <<>>
    /\ closed = TRUE
    /\ n = 0
    /\ ref = NoDecoder
    /\ stream = <<>>
    /\ plan = <<>>
    /\ mode = "free"
    /\ NoObject

(* A call of readByte on dec, with the bookkeeping of the observer. *)
Feed(b) ==
    LET r == readByte(dec, b)
    IN  /\ dec' = r.d
        /\ calls' = calls \o r.cb
        /\ fired' = Len(r.cb)
        /\ input' = b
        /\ before' = dec
        /\ raw' = Append(IF closed THEN <<>> ELSE raw, b)
        /\ closed' = (~dec.m_escape /\ b \in {BoF, EoF})
        /\ n' = n + 1

ReadByte(b) ==
    /\ mode = "free"
    /\ n < MaxInput
    /\ Feed(b)
    /\ UNCHANGED <<ref, stream, plan, mode>>
    /\ UNCHANGED objVars

Reset ==
    /\ mode = "free"
    /\ n < MaxInput
    /\ dec' = reset(dec)
    /\ before' = dec
    /\ fired' = 0
    /\ input' = -1
    /\ raw' = <<>>
    /\ closed' = TRUE
    /\ n' = n + 1
    /\ UNCHANGED <<calls, ref, stream, plan, mode>>
    /\ UNCHANGED objVars

Next ==
    \/ \E b \in Alphabet : ReadByte(b)
    \/ Reset

Spec == Init /\ [][Next]_vars

----------------------------------------------------------------------------
(* What the framing of a byte sequence is, stated on the whole sequence.     *)

Markers == {BoF, EoF, CE}

(* The bytes a raw run stands for once its escape sequences are resolved:    *)
(* each with the flag esc, set when it is the second byte of an escape       *)
(* sequence.  An escape marker at the very end stands for nothing.           *)
RECURSIVE Unstuff(_)
Unstuff(s) ==
    IF s = <<>> THEN <<>>
    ELSE IF Head(s) = CE
         THEN IF Len(s) = 1 THEN <<>>
              ELSE <<[val |-> BitXor(s[2], 32), esc |-> TRUE]>>
                   \o Unstuff(SubSeq(s, 3, Len(s)))
    ELSE <<[val |-> Head(s), esc |-> FALSE]>> \o Unstuff(Tail(s))

Values(u) == [i \in 1..Len(u) |-> u[i].val]

(* The last operation was readByte of byte b, taken while not escape-pending. *)
Consumed(b) == input = b /\ ~before.m_escape

----------------------------------------------------------------------------
(* Claims about the single decoder of Spec.                                  *)

\* C1 (as amended): when an end marker is consumed while not escape-pending,
\* the callback is invoked (once) if and only if the buffer holds at least
\* 2 bytes and the running checksum equals the residue 0xF0B8.
C1_CallbackIffValid ==
    Consumed(EoF) =>
        /\ fired \in {0, 1}
        /\ fired = 1 <=> (Len(before.m_bytes) >= 2 /\ before.m_crc = 61624)

\* C1 as stated: the callback is invoked if and only if the buffer holds
\* more than 2 bytes and the running checksum equals the residue.
C1_AsStated ==
    Consumed(EoF) =>
        (fired = 1 <=> (Len(before.m_bytes) > 2 /\ before.m_crc = 61624))

\* An end marker delivered a frame whose buffer held exactly the 2 checksum
\* bytes.
C1_Witness == Consumed(EoF) /\ fired = 1 /\ Len(before.m_bytes) = 2

\* C2: whenever the callback is invoked its range is well formed and holds
\* exactly the bytes accumulated since the last reset, in arrival order and
\* without the last 2; a reserved byte value is in it only as the result of
\* unescaping.
C2_PayloadIsFrameBody ==
    fired = 1 =>
        LET c == calls[Len(calls)]
            u == Unstuff(Front(raw))
        IN  /\ c.first <= c.last
            /\ Len(c.data) = c.last - c.first
            /\ Len(u) >= 2
            /\ c.data = SubSeq(Values(u), 1, Len(u) - 2)
            /\ \A i \in 1..Len(c.data) : c.data[i] \in Markers => u[i].esc

\* The callback received the payload <<0xFF>>, which arrived escaped.
C2_Witness == fired = 1 /\ calls[Len(calls)].data = <<255>>

\* C3: after an end marker is consumed while not escape-pending the decoder
\* is in the freshly constructed state, the frame accepted or not.
C3_EndMarkerResets == Consumed(EoF) => dec = StreamDecoder

\* An end marker rejected a non-empty buffer, after an earlier frame was
\* delivered.
C3_Witness ==
    /\ Consumed(EoF)
    /\ fired = 0
    /\ before.m_bytes # <<>>
    /\ calls # <<>>
    /\ dec = StreamDecoder

\* C4: a start marker consumed while not escape-pending discards the partial
\* frame, leaves the freshly constructed state and invokes no callback; a
\* start marker that follows a start marker changes nothing.
C4_StartMarkerResets ==
    [][(input' = BoF /\ n' = n + 1 /\ ~dec.m_escape) =>
          /\ dec' = StreamDecoder
          /\ calls' = calls
          /\ fired' = 0
          /\ (input = BoF /\ closed) => dec' = dec]_vars

\* A start marker discarded a partial frame.
C4_Witness ==
    /\ Consumed(BoF)
    /\ before.m_bytes # <<>>
    /\ before.m_crc # 65535
    /\ dec = StreamDecoder

\* C5: an escape marker consumed while not escape-pending only sets
\* escape-pending; the byte after it, whatever its value, only clears
\* escape-pending and appends itself XOR the mask to the buffer and the
\* checksum: no reset, no callback.
C5_Escape ==
    /\ Consumed(CE) =>
          /\ dec = [before EXCEPT !.m_escape = TRUE]
          /\ fired = 0
    /\ (before.m_escape /\ input # -1) =>
          /\ dec.m_escape = FALSE
          /\ dec.m_bytes = Append(before.m_bytes, BitXor(input, 32))
          /\ dec.m_crc = Crc16Add(before.m_crc, BitXor(input, 32))
          /\ fired = 0

\* An end marker value arrived escape-pending, with bytes already buffered.
C5_Witness ==
    /\ before.m_escape
    /\ input = EoF
    /\ before.m_bytes # <<>>
    /\ dec.m_bytes = Append(before.m_bytes, 223)

\* C12: callbacks are synchronous and ordered: an operation invokes the
\* callback at most once, and only when it consumes an end marker while not
\* escape-pending; the invocation is appended to those made before (they
\* stay in the order of their end markers), and the decoder is reset when
\* the operation is over, before the next byte is considered.
C12_CallbacksInOrder ==
    [][\/ calls' = calls /\ fired' = 0
       \/ /\ Len(calls') = Len(calls) + 1
          /\ SubSeq(calls', 1, Len(calls)) = calls
          /\ fired' = 1
          /\ input' = EoF
          /\ ~dec.m_escape
          /\ dec' = StreamDecoder]_vars

\* A second frame was delivered, after the first.
C12_Witness ==
    /\ Len(calls) = 2
    /\ fired = 1
    /\ Consumed(EoF)
    /\ dec = StreamDecoder

----------------------------------------------------------------------------
(* The encode side of the framing, as the wire rules give it: the checksum   *)
(* of the payload is appended, reserved byte values are byte-stuffed, and    *)
(* the result is wrapped in a start and an end marker.                       *)

(* The running checksum after the bytes of s, from the initial value. *)
RECURSIVE CrcFrom(_, _)
CrcFrom(crc, s) == IF s = <<>> THEN crc ELSE CrcFrom(Crc16Add(crc, Head(s)), Tail(s))

CrcOf(s) == CrcFrom(65535, s)

(* The 2 checksum bytes of a payload: the complement of its checksum, low    *)
(* byte first.                                                               *)
Checksum(p) ==
    LET c == 65535 - CrcOf(p)
    IN  <<c % 256, c \div 256>>

(* Byte-stuffing: a reserved value becomes the escape marker followed by     *)
(* the value XOR the mask.                                                   *)
RECURSIVE Stuff(_)
Stuff(s) ==
    IF s = <<>> THEN <<>>
    ELSE (IF Head(s) \in {BoF, EoF, CE} THEN <<CE, BitXor(Head(s), XOR)>> ELSE <<Head(s)>>)
         \o Stuff(Tail(s))

Encode(p) == <<BoF>> \o Stuff(p \o Checksum(p)) \o <<EoF>>

(* What the callback receives when it is given payload p. *)
Delivery(p) == [first |-> 0, last |-> Len(p), data |-> p]

----------------------------------------------------------------------------
(* Scenarios with a prepared stream: the stream is fed to dec one byte at a  *)
(* time.                                                                     *)

Prepared(m, pl, st) ==
    /\ dec = StreamDecoder
    /\ calls = <<>>
    /\ input = -1
    /\ before = StreamDecoder
    /\ fired = 0
    /\ raw = <<>>
    /\ closed = TRUE
    /\ n = 0
    /\ ref = NoDecoder
    /\ stream = st
    /\ plan = pl
    /\ mode = m
    /\ NoObject

FeedStream ==
    /\ stream # <<>>
    /\ Feed(Head(stream))
    /\ stream' = Tail(stream)
    /\ UNCHANGED <<ref, plan, mode>>
    /\ UNCHANGED objVars

----------------------------------------------------------------------------
(* SpecRT: a payload is encoded and the frame fed to a fresh decoder.        *)

PayloadBytes == {0, 1, 2, CE, BoF, EoF}

InitRT ==
    \E p \in SeqsUpTo(PayloadBytes, MaxPayload) :
        Prepared("rt", [payload |-> p], Encode(p))

NextRT == FeedStream

SpecRT == InitRT /\ [][NextRT]_vars

\* C6: frame round trip: feeding the frame of any payload, one byte at a
\* time, to a fresh decoder invokes the callback exactly once, with exactly
\* that payload: never more than once on the way, and once when the frame
\* has been fed.
C6_FrameRoundTrip ==
    /\ Len(calls) <= 1
    /\ stream # <<>> => calls = <<>>
    /\ stream = <<>> => calls = <<Delivery(plan.payload)>>

\* The frame of <<0x01, start marker, 0x02>> has been fed and delivered.
C6_Witness ==
    /\ stream = <<>>
    /\ plan.payload = <<1, BoF, 2>>
    /\ calls = <<Delivery(<<1, 254, 2>>)>>

----------------------------------------------------------------------------
(* SpecFlip: one bit of the frame of a payload is flipped; the flipped frame *)
(* and then the valid frame of a second payload are fed to a fresh decoder.  *)

FlipBytes == {0, 1, 223, CE, EoF}

NextPayloads == {<<>>, <<2>>}

(* Byte b with bit k (0: the lowest) flipped. *)
FlipBit(b, k) == BitXor(b, 2 ^ k)

(* What each byte of a raw run is: a framing byte ("marker": a start, end or *)
(* escape marker in force), the second byte of an escape sequence            *)
(* ("escaped") or a byte that stands for itself ("plain").                   *)
RECURSIVE Roles(_)
Roles(s) ==
    IF s = <<>> THEN <<>>
    ELSE IF Head(s) = CE /\ Len(s) >= 2
         THEN <<"marker", "escaped">> \o Roles(SubSeq(s, 3, Len(s)))
    ELSE IF Head(s) \in Markers THEN <<"marker">> \o Roles(Tail(s))
    ELSE <<"plain">> \o Roles(Tail(s))

InitFlip ==
    \E p \in SeqsUpTo(FlipBytes, MaxFlipPayload), q \in NextPayloads, bit \in 0..7 :
        \E pos \in 1..Len(Encode(p)) :
            Prepared("flip",
                     [payload |-> p, frame |-> Encode(p), pos |-> pos, bit |-> bit,
                      next |-> q],
                     [Encode(p) EXCEPT ![pos] = FlipBit(@, bit)] \o Encode(q))

NextFlip == FeedStream

SpecFlip == InitFlip /\ [][NextFlip]_vars

(* The flip leaves the framing as it was: it hits a payload or checksum byte *)
(* as transmitted (a plain byte or the second byte of an escape sequence),   *)
(* and a plain byte does not become a reserved value.                        *)
FlipKeepsFraming ==
    LET role == Roles(plan.frame)[plan.pos]
    IN  \/ role = "escaped"
        \/ role = "plain" /\ FlipBit(plan.frame[plan.pos], plan.bit) \notin Markers

(* The flipped frame has been fed and the next frame has not. *)
FlippedFrameFed == Len(stream) = Len(Encode(plan.next))

\* C7 (as amended): a single bit flip in a payload or checksum byte as
\* transmitted, which does not turn a plain byte into a reserved value,
\* gives no callback for that frame; the decoder is then in the reset state
\* and the following valid frame is delivered.
C7_CorruptionDrop ==
    FlipKeepsFraming =>
        /\ Len(stream) >= Len(Encode(plan.next)) => calls = <<>>
        /\ FlippedFrameFed => dec = StreamDecoder
        /\ stream = <<>> => (calls = <<Delivery(plan.next)>> /\ dec = StreamDecoder)

\* C7 as stated: any single bit flip in the framed message gives no callback
\* for that frame, and the following valid frame is delivered.
C7_AsStated ==
    /\ Len(stream) >= Len(Encode(plan.next)) => calls = <<>>
    /\ FlippedFrameFed => dec = StreamDecoder
    /\ stream = <<>> => (calls = <<Delivery(plan.next)>> /\ dec = StreamDecoder)

\* A frame with a flipped escaped byte was dropped and the next frame
\* delivered.
C7_Witness ==
    /\ stream = <<>>
    /\ FlipKeepsFraming
    /\ plan.payload = <<1, EoF>>
    /\ plan.pos = 4
    /\ plan.next = <<2>>
    /\ calls = <<Delivery(<<2>>)>>

----------------------------------------------------------------------------
(* SpecFrames: a stream of complete frames (start marker, byte-stuffed body, *)
(* end marker), valid ones and rejected ones, is fed to dec; the same stream *)
(* without its rejected frames is then fed to the second decoder.            *)

(* The second decoder after a call of readByte with byte b. *)
RefAfter(b) ==
    LET r == readByte(ref.d, b)
    IN  [d      |-> r.d,
         calls  |-> ref.calls \o r.cb,
         todo   |-> IF ref.todo = <<>> THEN <<>> ELSE Tail(ref.todo),
         closed |-> (~ref.d.m_escape /\ b \in {BoF, EoF})]

(* A call of readByte on the second decoder, with the next byte it is to get. *)
FeedRef ==
    /\ stream = <<>>
    /\ ref.todo # <<>>
    /\ ref' = RefAfter(Head(ref.todo))
    /\ UNCHANGED <<dec, calls, input, before, fired, raw, closed, n, stream, plan, mode>>
    /\ UNCHANGED objVars

(* The bodies of the frames, before byte-stuffing: a payload followed by its *)
(* checksum, by a wrong checksum, or by a single byte.                       *)
Bodies ==
    UNION {{p \o Checksum(p), p \o <<0, 0>>, p \o <<0>>} : p \in SeqsUpTo({0, 255}, MaxBody)}

Frame(body) == <<BoF>> \o Stuff(body) \o <<EoF>>

(* A frame is rejected when its body is undersized (fewer than 2 bytes) or   *)
(* its checksum does not match.                                              *)
Rejected(body) == Len(body) < 2 \/ CrcOf(body) # 61624

RECURSIVE Concat(_)
Concat(ss) == IF ss = <<>> THEN <<>> ELSE Head(ss) \o Concat(Tail(ss))

(* The stream of the frames of bodies bs, and that stream without its        *)
(* rejected frames.                                                          *)
FrameStream(bs) == Concat([i \in 1..Len(bs) |-> Frame(bs[i])])

KeptStream(bs) ==
    Concat([i \in 1..Len(bs) |-> IF Rejected(bs[i]) THEN <<>> ELSE Frame(bs[i])])

(* The payloads of the frames that are not rejected, in order, as the        *)
(* callback is to receive them.                                              *)
KeptDeliveries(bs) ==
    Concat([i \in 1..Len(bs) |->
              IF Rejected(bs[i]) THEN <<>>
              ELSE <<Delivery(SubSeq(bs[i], 1, Len(bs[i]) - 2))>>])

InitFrames ==
    \E bs \in SeqsUpTo(Bodies, MaxFrames) :
        /\ dec = StreamDecoder
        /\ calls = <<>>
        /\ input = -1
        /\ before = StreamDecoder
        /\ fired = 0
        /\ raw = <<>>
        /\ closed = TRUE
        /\ n = 0
        /\ ref = [NoDecoder EXCEPT !.todo = KeptStream(bs)]
        /\ stream = FrameStream(bs)
        /\ plan = [bodies |-> bs]
        /\ mode = "frames"
        /\ NoObject

NextFrames ==
    \/ FeedStream
    \/ FeedRef

SpecFrames == InitFrames /\ [][NextFrames]_vars

----------------------------------------------------------------------------
(* SpecPair: two decoders get a history each, both ending with a start or an *)
(* end marker consumed while not escape-pending, and then the same bytes.    *)

HistBytes == {0, CE, BoF, EoF}

InitPair ==
    Prepared("hist", [a |-> <<>>, b |-> <<>>], <<>>)

HistA(b) ==
    /\ mode = "hist"
    /\ Len(plan.a) < MaxHist
    /\ Feed(b)
    /\ plan' = [plan EXCEPT !.a = Append(@, b)]
    /\ UNCHANGED <<ref, stream, mode>>
    /\ UNCHANGED objVars

HistB(b) ==
    /\ mode = "hist"
    /\ Len(plan.b) < MaxHist
    /\ ref' = RefAfter(b)
    /\ plan' = [plan EXCEPT !.b = Append(@, b)]
    /\ UNCHANGED <<dec, calls, input, before, fired, raw, closed, n, stream, mode>>
    /\ UNCHANGED objVars

(* Both histories have just ended with a marker in force: the continuation   *)
(* starts, and with it the record of its callbacks.                          *)
Join ==
    /\ mode = "hist"
    /\ plan.a # <<>> /\ closed
    /\ plan.b # <<>> /\ ref.closed
    /\ mode' = "cont"
    /\ calls' = <<>>
    /\ ref' = [ref EXCEPT !.calls = <<>>]
    /\ plan' = [a |-> Len(plan.a), b |-> Len(plan.b)]
    /\ input' = -1
    /\ before' = dec
    /\ fired' = 0
    /\ raw' = <<>>
    /\ n' = 0
    /\ UNCHANGED <<dec, closed, stream>>
    /\ UNCHANGED objVars

Cont(b) ==
    /\ mode = "cont"
    /\ n < MaxCont
    /\ Feed(b)
    /\ ref' = RefAfter(b)
    /\ UNCHANGED <<stream, plan, mode>>
    /\ UNCHANGED objVars

NextPair ==
    \/ \E b \in HistBytes : HistA(b)
    \/ \E b \in HistBytes : HistB(b)
    \/ Join
    \/ \E b \in Alphabet : Cont(b)

SpecPair == InitPair /\ [][NextPair]_vars

\* C9: no cross-frame state: after any two histories that each end with a
\* start or end marker consumed while not escape-pending, a common
\* continuation produces the same sequence of callbacks, with the same
\* payloads, in both runs.
C9_NoCrossFrameState == mode = "cont" => calls = ref.calls

\* After histories of different lengths the continuation delivered a frame
\* in both runs.
C9_Witness ==
    /\ mode = "cont"
    /\ plan.a # plan.b
    /\ fired = 1
    /\ calls = ref.calls

----------------------------------------------------------------------------
(* SpecChunk: dec is fed the stream in chunks, by read; the second decoder   *)
(* is fed the same bytes one at a time, by readByte.                         *)

ChunkBytes == {0, 32, CE, BoF, EoF}

InitChunk == Prepared("chunk", <<>>, <<>>)

(* A call of read on dec with a chunk; the chunk is then due to the second   *)
(* decoder.                                                                  *)
Read(chunk) ==
    /\ mode = "chunk"
    /\ ref.todo = <<>>
    /\ n + Len(chunk) <= MaxStream
    /\ LET r == read(dec, chunk)
       IN  /\ dec' = r.d
           /\ calls' = calls \o r.cb
           /\ fired' = Len(r.cb)
    /\ input' = -1
    /\ before' = dec
    /\ raw' = <<>>
    /\ closed' = TRUE
    /\ n' = n + Len(chunk)
    /\ ref' = [ref EXCEPT !.todo = chunk]
    /\ UNCHANGED <<stream, plan, mode>>
    /\ UNCHANGED objVars

NextChunk ==
    \/ \E chunk \in SeqsUpTo(ChunkBytes, MaxChunk) : Read(chunk)
    \/ FeedRef

SpecChunk == InitChunk /\ [][NextChunk]_vars

\* C10: feeding granularity does not matter: once the bytes of the chunks
\* given to read have all been given to readByte, one by one and in order,
\* both decoders have made the same callbacks and are in the same state,
\* wherever the chunk boundaries fall.
C10_ChunkingIrrelevant ==
    ref.todo = <<>> => (calls = ref.calls /\ dec = ref.d)

\* A chunk that started escape-pending (the boundary fell between an escape
\* marker and the escaped byte) completed a frame, and the byte-wise decoder
\* has caught up.
C10_Witness ==
    /\ mode = "chunk"
    /\ ref.todo = <<>>
    /\ before.m_escape
    /\ fired = 1
    /\ calls = ref.calls
    /\ dec = ref.d

----------------------------------------------------------------------------
(* The two variants of readByte and read: the one that threads a caller's    *)
(* token (state) through to the callback, and the one whose callback takes   *)
(* the range only.                                                           *)

(* The invocations cb, each with the token given to the call. *)
withState(cb, state) ==
    [i \in 1..Len(cb) |->
        [first |-> cb[i].first, last |-> cb[i].last, data |-> cb[i].data,
         state |-> state]]

readByteState_defaultToken(d, in, state) ==
    LET r == readByte(d, in)
    IN  [d |-> r.d, cb |-> withState(r.cb, "none")]

(* readByte(input, callback, state): callback(first, last, state). *)
readByteState(d, in, state) ==
    LET r == readByte(d, in)
    IN  [d |-> r.d, cb |-> withState(r.cb, state)]

(* read(first, last, callback, state). *)
RECURSIVE readState(_, _, _)
readState(d, chunk, state) ==
    IF chunk = <<>> THEN [d |-> d, cb |-> <<>>]
    ELSE LET r    == readByteState(d, Head(chunk), state)
             rest == readState(r.d, Tail(chunk), state)
         IN  [d |-> rest.d, cb |-> r.cb \o rest.cb]

(* invokeStatelessCallback(first, last, callback): callback(first, last).    *)
(* c is the invocation it gets, its third argument in c.state.               *)
invokeStatelessCallback(c) ==
    [first |-> c.first, last |-> c.last, data |-> c.data, callback |-> c.state]

(* readByte(input, callback): the three argument readByte, with              *)
(* invokeStatelessCallback as its callback and the callback as its state.    *)
readByteStateless(d, in, callback) ==
    LET r == readByteState(d, in, callback)
    IN  [d |-> r.d, cb |-> [i \in 1..Len(r.cb) |-> invokeStatelessCallback(r.cb[i])]]

(* read(first, last, callback). *)
RECURSIVE readStateless(_, _, _)
readStateless(d, chunk, callback) ==
    IF chunk = <<>> THEN [d |-> d, cb |-> <<>>]
    ELSE LET r    == readByteStateless(d, Head(chunk), callback)
             rest == readStateless(r.d, Tail(chunk), callback)
         IN  [d |-> rest.d, cb |-> r.cb \o rest.cb]

----------------------------------------------------------------------------
(* SpecToken: dec is fed by the token variant, each call with a token of its *)
(* own choice; the second decoder is fed the same bytes by the callback-only *)
(* variant.                                                                  *)

TokenBytes == {0, CE, BoF, EoF}

Tokens == {"t1", "t2"}

InitToken == Prepared("token", [tokens |-> <<>>], <<>>)

(* Both decoders after the same input: r by the token variant with token t,  *)
(* s by the callback-only variant.  plan.tokens gets t once for every        *)
(* callback invocation of the call.                                          *)
BothFed(r, s, t, len) ==
    /\ dec' = r.d
    /\ calls' = calls \o r.cb
    /\ fired' = Len(r.cb)
    /\ before' = dec
    /\ raw' = <<>>
    /\ closed' = TRUE
    /\ n' = n + len
    /\ ref' = [ref EXCEPT !.d = s.d, !.calls = ref.calls \o s.cb]
    /\ plan' = [tokens |-> plan.tokens \o [i \in 1..Len(r.cb) |-> t]]
    /\ UNCHANGED <<stream, mode>>
    /\ UNCHANGED objVars

TokenByte(b, t) ==
    /\ mode = "token"
    /\ n < MaxTokenStream
    /\ input' = b
    /\ BothFed(readByteState(dec, b, t), readByteStateless(ref.d, b, "callback"), t, 1)

TokenChunk(chunk, t) ==
    /\ mode = "token"
    /\ n + Len(chunk) <= MaxTokenStream
    /\ input' = -1
    /\ BothFed(readState(dec, chunk, t), readStateless(ref.d, chunk, "callback"), t,
               Len(chunk))

NextToken ==
    \/ \E b \in TokenBytes, t \in Tokens : TokenByte(b, t)
    \/ \E chunk \in SeqsUpTo(TokenBytes, MaxTokenChunk), t \in Tokens : TokenChunk(chunk, t)

SpecToken == InitToken /\ [][NextToken]_vars

\* C11: the callback-only variant and the token variant of readByte and read
\* deliver the same sequence of payloads and leave the same decoder state;
\* in the token variant every callback invocation receives the token given
\* to the call that consumed the end marker of its frame, and in the
\* callback-only variant it is the caller's callback that is invoked.
C11_VariantsAgree ==
    /\ dec = ref.d
    /\ Len(calls) = Len(ref.calls)
    /\ \A i \in 1..Len(calls) :
          /\ calls[i].data = ref.calls[i].data
          /\ calls[i].first = ref.calls[i].first
          /\ calls[i].last = ref.calls[i].last
          /\ ref.calls[i].callback = "callback"
    /\ Len(plan.tokens) = Len(calls)
    /\ \A i \in 1..Len(calls) : calls[i].state = plan.tokens[i]

\* Two frames were delivered, to calls with different tokens.
C11_Witness ==
    /\ mode = "token"
    /\ Len(calls) = 2
    /\ calls[1].state = "t1"
    /\ calls[2].state = "t2"
    /\ Len(ref.calls) = 2

----------------------------------------------------------------------------
(* The glow nodes GlowInvocation and GlowFunctionBase.  A node of the tree   *)
(* is a record: its class (kind), its tag, its identity (id, the address of  *)
(* the object), the ber::Value it holds (leaves) and its children in order   *)
(* (items).  An object under test is [type, children, nextId]: nextId is the *)
(* identity the next object created by new gets.                             *)

Null == 0

NoValue == [universalTag |-> 0, content |-> 0]

Node(kind, tag, id, value, items) ==
    [kind |-> kind, tag |-> tag, id |-> id, value |-> value, items |-> items]

(* glow::Value::toBerValue(): the value under the universal tag of its type. *)
toBerValue(val) ==
    [universalTag |-> CASE val.type = "Integer" -> 2
                        [] val.type = "Boolean" -> 1
                        [] val.type = "String"  -> 12,
     content |-> val.v]

(* glow::Value(ber::Value): the type is read off the universal tag. *)
Value(ber) ==
    [type |-> CASE ber.universalTag = 2  -> "Integer"
                [] ber.universalTag = 1  -> "Boolean"
                [] ber.universalTag = 12 -> "String"
                [] OTHER -> "None",
     v |-> ber.content]

(* util::find_tag: the position of the first child with the tag, 0 if none.  *)
find_tag(children, tag) ==
    IF \E i \in 1..Len(children) : children[i].tag = tag
    THEN CHOOSE i \in 1..Len(children) :
             /\ children[i].tag = tag
             /\ \A j \in 1..(i - 1) : children[j].tag # tag
    ELSE 0

(* A mutable accessor: the child in the slot of the tag, created (empty, at  *)
(* the end of the children) if there is none.  ret is the child's identity.  *)
getOrCreate(o, tag, kind) ==
    LET i == find_tag(o.children, tag)
    IN  IF i # 0 THEN [o |-> o, ret |-> o.children[i].id]
        ELSE [o   |-> [o EXCEPT !.children = Append(@, Node(kind, tag, o.nextId, NoValue, <<>>)),
                                !.nextId = @ + 1],
              ret |-> o.nextId]

(* A read-only accessor: the child in the slot of the tag, null if none.     *)
getConst(o, tag) ==
    LET i == find_tag(o.children, tag)
    IN  [o |-> o, ret |-> IF i # 0 THEN o.children[i].id ELSE Null]

(* The children of the child with identity id (a container). *)
ItemsOf(o, id) ==
    LET i == CHOOSE k \in 1..Len(o.children) : o.children[k].id = id
    IN  o.children[i].items

(* dom::Container::insert(end(), node) on the child with identity id. *)
insertAtEnd(o, id, node) ==
    LET i == CHOOSE k \in 1..Len(o.children) : o.children[k].id = id
    IN  [o EXCEPT !.children[i].items = Append(@, node)]

(* dom::Container::clear() on the child with identity id. *)
clear(o, id) ==
    LET i == CHOOSE k \in 1..Len(o.children) : o.children[k].id = id
    IN  [o EXCEPT !.children[i].items = <<>>]

(* GlowInvocation::GlowInvocation(), and a GlowFunctionBase as constructed.  *)
GlowInvocation == [type |-> "GlowInvocation", children |-> <<>>, nextId |-> 1]

GlowFunctionBase == [type |-> "GlowFunctionBase", children |-> <<>>, nextId |-> 1]

(* GlowInvocation::arguments(). *)
GlowInvocation_arguments(o) == getOrCreate(o, "arguments", "Sequence")

(* GlowInvocation::arguments() const. *)
GlowInvocation_argumentsConst(o) == getConst(o, "arguments")

(* GlowInvocation::setInvocationId(id): the leaf in the slot is replaced.    *)
GlowInvocation_setInvocationId(o, id) ==
    LET i    == find_tag(o.children, "invocationId")
        kept == IF i = 0 THEN o.children
                ELSE SubSeq(o.children, 1, i - 1) \o SubSeq(o.children, i + 1, Len(o.children))
        leaf == Node("VariantLeaf", "invocationId", o.nextId,
                     [universalTag |-> 2, content |-> id], <<>>)
    IN  [o   |-> [o EXCEPT !.children = Append(kept, leaf), !.nextId = @ + 1],
         ret |-> <<>>]

(* GlowInvocation::invocationId() const: -1 if no identifier is set.         *)
GlowInvocation_invocationId(o) ==
    LET i == find_tag(o.children, "invocationId")
    IN  [o |-> o, ret |-> IF i # 0 THEN o.children[i].value.content ELSE -1]

(* The loop of setTypedArguments: a new VariantLeaf for each value, inserted *)
(* at the end of the container.                                              *)
RECURSIVE insertLeaves(_, _, _)
insertLeaves(o, id, vs) ==
    IF vs = <<>> THEN o
    ELSE LET node == Node("VariantLeaf", "ElementDefault", o.nextId, toBerValue(Head(vs)), <<>>)
         IN  insertLeaves([insertAtEnd(o, id, node) EXCEPT !.nextId = @ + 1], id, Tail(vs))

GlowInvocation_setTypedArguments_noClear(o, vs) ==
    LET a == GlowInvocation_arguments(o)
    IN  [o |-> insertLeaves(a.o, a.ret, vs), ret |-> <<>>]

GlowInvocation_setTypedArguments_clearsNode(o, vs) ==
    LET a == GlowInvocation_arguments([o EXCEPT !.children = <<>>])
    IN  [o |-> insertLeaves(clear(a.o, a.ret), a.ret, vs), ret |-> <<>>]

GlowInvocation_setTypedArguments_newContainer(o, vs) ==
    LET c == Node("Sequence", "arguments", o.nextId, NoValue, <<>>)
        a == [o EXCEPT !.children = Append(@, c), !.nextId = @ + 1]
    IN  [o |-> insertLeaves(a, c.id, vs), ret |-> <<>>]

RECURSIVE Reverse(_)
Reverse(q) == IF q = <<>> THEN <<>> ELSE Append(Reverse(Tail(q)), Head(q))

GlowInvocation_setTypedArguments_atBegin(o, vs) ==
    LET a == GlowInvocation_arguments(o)
    IN  [o |-> insertLeaves(clear(a.o, a.ret), a.ret, Reverse(vs)), ret |-> <<>>]

GlowInvocation_setTypedArguments_skipEmpty(o, vs) ==
    IF vs = <<>> THEN [o |-> o, ret |-> <<>>]
    ELSE LET a == GlowInvocation_arguments(o)
         IN  [o |-> insertLeaves(clear(a.o, a.ret), a.ret, vs), ret |-> <<>>]

(* GlowInvocation::setTypedArguments(firstValue, lastValue). *)
GlowInvocation_setTypedArguments(o, vs) ==
    LET a == GlowInvocation_arguments(o)
    IN  [o |-> insertLeaves(clear(a.o, a.ret), a.ret, vs), ret |-> <<>>]

(* dynamic_cast<dom::VariantLeaf const*>(&*first) != 0 *)
IsVariantLeaf(node) == node.kind = "VariantLeaf"

GlowInvocation_typedArguments_countsAll(o) ==
    LET c == GlowInvocation_argumentsConst(o).ret
    IN  IF c # Null
        THEN LET leaves == SelectSeq(ItemsOf(o, c), IsVariantLeaf)
             IN  [o   |-> o,
                  ret |-> [dest |-> [k \in 1..Len(leaves) |-> Value(leaves[k].value)],
                           size |-> Len(ItemsOf(o, c))]]
        ELSE [o |-> o, ret |-> [dest |-> <<>>, size |-> 0]]

GlowInvocation_typedArguments_creates(o) ==
    LET a      == GlowInvocation_arguments(o)
        leaves == SelectSeq(ItemsOf(a.o, a.ret), IsVariantLeaf)
    IN  [o   |-> a.o,
         ret |-> [dest |-> [k \in 1..Len(leaves) |-> Value(leaves[k].value)],
                  size |-> Len(leaves)]]

(* GlowInvocation::typedArguments(dest) const: what dest received, and the   *)
(* size returned.                                                            *)
GlowInvocation_typedArguments(o) ==
    LET c == GlowInvocation_argumentsConst(o).ret
    IN  IF c # Null
        THEN LET leaves == SelectSeq(ItemsOf(o, c), IsVariantLeaf)
             IN  [o   |-> o,
                  ret |-> [dest |-> [k \in 1..Len(leaves) |-> Value(leaves[k].value)],
                           size |-> Len(leaves)]]
        ELSE [o |-> o, ret |-> [dest |-> <<>>, size |-> 0]]

(* GlowFunctionBase::arguments(), result() and children(). *)
GlowFunctionBase_arguments(o) == getOrCreate(o, "arguments", "Sequence")

GlowFunctionBase_result(o) == getOrCreate(o, "result", "Sequence")

GlowFunctionBase_children(o) == getOrCreate(o, "children", "GlowElementCollection")

(* GlowFunctionBase::arguments() const, result() const, children() const.    *)
GlowFunctionBase_argumentsConst(o) == getConst(o, "arguments")

GlowFunctionBase_resultConst(o) == getConst(o, "result")

GlowFunctionBase_childrenConst(o) == getConst(o, "children")

(* GlowFunctionBase::contains(property). *)
GlowFunctionBase_contains(o, property) ==
    [o |-> o, ret |-> find_tag(o.children, property) # 0]

IsTupleItemDescription(node) == node.kind = "GlowTupleItemDescription"

(* util::TypeFilter<GlowTupleItemDescription>::collect(first, last, dest):   *)
(* the elements of the range of that type, in order, and their number.       *)
TypeFilter_collect(items) ==
    LET found == SelectSeq(items, IsTupleItemDescription)
    IN  [dest |-> found, size |-> Len(found)]

GlowFunctionBase_typedArguments_ofResult(o) ==
    LET c == GlowFunctionBase_resultConst(o).ret
    IN  [o   |-> o,
         ret |-> IF c # Null THEN TypeFilter_collect(ItemsOf(o, c))
                 ELSE [dest |-> <<>>, size |-> 0]]

(* GlowFunctionBase::typedArguments(dest) const. *)
GlowFunctionBase_typedArguments(o) ==
    LET c == GlowFunctionBase_argumentsConst(o).ret
    IN  [o   |-> o,
         ret |-> IF c # Null THEN TypeFilter_collect(ItemsOf(o, c))
                 ELSE [dest |-> <<>>, size |-> 0]]

(* GlowFunctionBase::typedResult(dest) const. *)
GlowFunctionBase_typedResult(o) ==
    LET c == GlowFunctionBase_resultConst(o).ret
    IN  [o   |-> o,
         ret |-> IF c # Null THEN TypeFilter_collect(ItemsOf(o, c))
                 ELSE [dest |-> <<>>, size |-> 0]]

----------------------------------------------------------------------------
(* SpecGlow: a GlowInvocation or a GlowFunctionBase is constructed and its   *)
(* member functions are called, at most MaxOps times.  op is the last call,  *)
(* ret what it returned, was the node before it.                             *)

GlowValues == {[type |-> "Integer", v |-> 7], [type |-> "Boolean", v |-> 1]}

InvocationIds == {3, 4}

Shapes == {"VariantLeaf", "GlowTupleItemDescription", "Sequence"}

(* A node the caller builds: a leaf, a tuple item description, or a sequence *)
(* that holds one of each.                                                   *)
Built(shape, id) ==
    CASE shape = "VariantLeaf" ->
             Node("VariantLeaf", "ElementDefault", id, toBerValue([type |-> "String", v |-> 65]), <<>>)
      [] shape = "GlowTupleItemDescription" ->
             Node("GlowTupleItemDescription", "ElementDefault", id, NoValue, <<>>)
      [] shape = "Sequence" ->
             Node("Sequence", "ElementDefault", id, NoValue,
                  << Node("VariantLeaf", "ElementDefault", id + 1,
                          toBerValue([type |-> "Integer", v |-> 9]), <<>>),
                     Node("GlowTupleItemDescription", "ElementDefault", id + 2, NoValue, <<>>) >>)

BuiltSize(shape) == IF shape = "Sequence" THEN 3 ELSE 1

(* The caller inserts a node it built at the end of the sequence that the    *)
(* mutable accessor returned.                                                *)
insertBuilt(a, shape) ==
    [o   |-> [insertAtEnd(a.o, a.ret, Built(shape, a.o.nextId))
                  EXCEPT !.nextId = @ + BuiltSize(shape)],
     ret |-> a.ret]

InitGlow ==
    /\ dec = StreamDecoder
    /\ calls = <<>>
    /\ input = -1
    /\ before = StreamDecoder
    /\ fired = 0
    /\ raw = <<>>
    /\ closed = TRUE
    /\ n = 0
    /\ ref = NoDecoder
    /\ stream = <<>>
    /\ plan = <<>>
    /\ mode = "glow"
    /\ obj \in {GlowInvocation, GlowFunctionBase}
    /\ ret = <<>>
    /\ op = [name |-> "new", arg |-> <<>>]
    /\ was = obj
    /\ ops = 0

Call(name, arg, r) ==
    /\ ops < MaxOps
    /\ obj' = r.o
    /\ ret' = r.ret
    /\ op' = [name |-> name, arg |-> arg]
    /\ was' = obj
    /\ ops' = ops + 1
    /\ UNCHANGED s101Vars

InvocationArguments ==
    /\ obj.type = "GlowInvocation"
    /\ Call("arguments", "arguments", GlowInvocation_arguments(obj))

InvocationArgumentsConst ==
    /\ obj.type = "GlowInvocation"
    /\ Call("argumentsConst", "arguments", GlowInvocation_argumentsConst(obj))

InvocationInsert(shape) ==
    /\ obj.type = "GlowInvocation"
    /\ Call("insert", "arguments", insertBuilt(GlowInvocation_arguments(obj), shape))

SetTypedArguments(vs) ==
    /\ obj.type = "GlowInvocation"
    /\ Call("setTypedArguments", vs, GlowInvocation_setTypedArguments(obj, vs))

InvocationTypedArguments ==
    /\ obj.type = "GlowInvocation"
    /\ Call("typedArguments", "arguments", GlowInvocation_typedArguments(obj))

SetInvocationId(id) ==
    /\ obj.type = "GlowInvocation"
    /\ Call("setInvocationId", id, GlowInvocation_setInvocationId(obj, id))

InvocationId ==
    /\ obj.type = "GlowInvocation"
    /\ Call("invocationId", "invocationId", GlowInvocation_invocationId(obj))

FunctionArguments ==
    /\ obj.type = "GlowFunctionBase"
    /\ Call("arguments", "arguments", GlowFunctionBase_arguments(obj))

FunctionResult ==
    /\ obj.type = "GlowFunctionBase"
    /\ Call("result", "result", GlowFunctionBase_result(obj))

FunctionChildren ==
    /\ obj.type = "GlowFunctionBase"
    /\ Call("children", "children", GlowFunctionBase_children(obj))

FunctionArgumentsConst ==
    /\ obj.type = "GlowFunctionBase"
    /\ Call("argumentsConst", "arguments", GlowFunctionBase_argumentsConst(obj))

FunctionResultConst ==
    /\ obj.type = "GlowFunctionBase"
    /\ Call("resultConst", "result", GlowFunctionBase_resultConst(obj))

FunctionChildrenConst ==
    /\ obj.type = "GlowFunctionBase"
    /\ Call("childrenConst", "children", GlowFunctionBase_childrenConst(obj))

FunctionInsert(slot, shape) ==
    /\ obj.type = "GlowFunctionBase"
    /\ Call("insert", slot,
            insertBuilt(CASE slot = "arguments" -> GlowFunctionBase_arguments(obj)
                          [] slot = "result"    -> GlowFunctionBase_result(obj)
                          [] slot = "children"  -> GlowFunctionBase_children(obj),
                        shape))

Contains(property) ==
    /\ obj.type = "GlowFunctionBase"
    /\ Call("contains", property, GlowFunctionBase_contains(obj, property))

FunctionTypedArguments ==
    /\ obj.type = "GlowFunctionBase"
    /\ Call("typedArguments", "arguments", GlowFunctionBase_typedArguments(obj))

FunctionTypedResult ==
    /\ obj.type = "GlowFunctionBase"
    /\ Call("typedResult", "result", GlowFunctionBase_typedResult(obj))

NextGlow ==
    \/ InvocationArguments
    \/ InvocationArgumentsConst
    \/ \E shape \in Shapes : InvocationInsert(shape)
    \/ \E vs \in SeqsUpTo(GlowValues, MaxArgs) : SetTypedArguments(vs)
    \/ InvocationTypedArguments
    \/ \E id \in InvocationIds : SetInvocationId(id)
    \/ InvocationId
    \/ FunctionArguments
    \/ FunctionResult
    \/ FunctionChildren
    \/ FunctionArgumentsConst
    \/ FunctionResultConst
    \/ FunctionChildrenConst
    \/ \E slot \in {"arguments", "result", "children"}, shape \in Shapes : FunctionInsert(slot, shape)
    \/ \E property \in {"arguments", "result", "children"} : Contains(property)
    \/ FunctionTypedArguments
    \/ FunctionTypedResult

SpecGlow == InitGlow /\ [][NextGlow]_vars

(* The children of the slot of a tag, none if the slot is empty. *)
SlotItems(o, tag) ==
    LET c == getConst(o, tag).ret
    IN  IF c = Null THEN <<>> ELSE ItemsOf(o, c)

Ids(items) == {items[k].id : k \in 1..Len(items)}

\* C13: after setTypedArguments the arguments sequence holds exactly one
\* VariantLeaf for each given value, the i-th leaf wrapping the i-th value as
\* its ber value, and none of the children the sequence had before.
C13_SetReplacesArguments ==
    op.name = "setTypedArguments" =>
        LET items == SlotItems(obj, "arguments")
        IN  /\ GlowInvocation_argumentsConst(obj).ret # Null
            /\ Len(items) = Len(op.arg)
            /\ \A k \in 1..Len(items) :
                   /\ IsVariantLeaf(items[k])
                   /\ items[k].value = toBerValue(op.arg[k])
            /\ Ids(items) \cap Ids(SlotItems(was, "arguments")) = {}

C13_Witness ==
    /\ op.name = "setTypedArguments"
    /\ Len(op.arg) = 2
    /\ SlotItems(was, "arguments") # <<>>
    /\ Len(SlotItems(obj, "arguments")) = 2

(* The positions of the leaves among items, and the k-th of them. *)
LeafPositions(items) == {i \in 1..Len(items) : items[i].kind = "VariantLeaf"}

NthOf(P, k) == CHOOSE i \in P : Cardinality({j \in P : j <= i}) = k

\* C14: typedArguments of a GlowInvocation copies to the destination the
\* values of the immediate children of the arguments sequence that are
\* leaves, in sequence order, skipping the others, and returns their number;
\* without an arguments sequence it copies nothing and returns 0; the tree is
\* left as it was.
C14_TypedArgumentsCopiesLeaves ==
    (op.name = "typedArguments" /\ obj.type = "GlowInvocation") =>
        LET items == SlotItems(was, "arguments")
            P     == LeafPositions(items)
        IN  /\ obj = was
            /\ ret.size = Cardinality(P)
            /\ Len(ret.dest) = ret.size
            /\ \A k \in 1..ret.size : ret.dest[k] = Value(items[NthOf(P, k)].value)
            /\ find_tag(was.children, "arguments") = 0 => ret.size = 0 /\ ret.dest = <<>>

C14_Witness ==
    /\ op.name = "typedArguments"
    /\ obj.type = "GlowInvocation"
    /\ Len(SlotItems(obj, "arguments")) = 2
    /\ ~IsVariantLeaf(SlotItems(obj, "arguments")[1])
    /\ ret.size = 1
    /\ ret.dest = << [type |-> "String", v |-> 65] >>

(* A tree without the identities of its objects: what it holds, in order.    *)
RECURSIVE Content(_)
Content(items) ==
    [k \in 1..Len(items) |->
        [kind  |-> items[k].kind,
         tag   |-> items[k].tag,
         value |-> items[k].value,
         items |-> Content(items[k].items)]]

\* C15: after setTypedArguments(vs), typedArguments on the same invocation
\* returns the count |vs| and yields exactly vs in order; and a second
\* setTypedArguments(vs) leaves the invocation holding what it held after the
\* first, with typedArguments giving the same result.
C15_TypedArgumentsRoundTrip ==
    op.name = "setTypedArguments" =>
        LET back  == GlowInvocation_typedArguments(obj)
            again == GlowInvocation_setTypedArguments(obj, op.arg).o
        IN  /\ back.ret = [dest |-> op.arg, size |-> Len(op.arg)]
            /\ back.o = obj
            /\ Content(again.children) = Content(obj.children)
            /\ GlowInvocation_typedArguments(again).ret = back.ret

C15_Witness ==
    /\ op.name = "setTypedArguments"
    /\ Len(op.arg) = 2
    /\ op.arg[1] # op.arg[2]
    /\ SlotItems(was, "arguments") # <<>>
    /\ GlowInvocation_typedArguments(obj).ret.dest = op.arg

LazySlots == {"arguments", "result", "children"}

\* C16: a mutable accessor (arguments(), result(), children()) called when
\* its slot is empty creates exactly one child there and returns it; called
\* when the slot is filled it returns the child that is there and creates
\* nothing; no operation changes which child backs a filled slot, and a slot
\* never holds more than one child.
C16_LazyCreationIdempotent ==
    /\ \A tag \in LazySlots :
           /\ Cardinality({i \in 1..Len(obj.children) : obj.children[i].tag = tag}) <= 1
           /\ getConst(was, tag).ret # Null => getConst(obj, tag).ret = getConst(was, tag).ret
    /\ op.name \in LazySlots =>
           IF getConst(was, op.arg).ret = Null
           THEN /\ Len(obj.children) = Len(was.children) + 1
                /\ SubSeq(obj.children, 1, Len(was.children)) = was.children
                /\ obj.children[Len(obj.children)].tag = op.arg
                /\ obj.children[Len(obj.children)].id = ret
                /\ ret \notin Ids(was.children)
           ELSE /\ obj = was
                /\ ret = getConst(was, op.arg).ret

C16_Witness ==
    /\ obj.type = "GlowFunctionBase"
    /\ op.name = "arguments"
    /\ obj = was
    /\ Len(obj.children) = 2
    /\ obj.children[1].tag = "arguments"
    /\ ret = obj.children[1].id

ReadOnly == {"argumentsConst", "resultConst", "childrenConst", "contains",
             "typedArguments", "typedResult", "invocationId"}

(* The slot the last call created or wrote through, "none" for a read.       *)
Written ==
    CASE op.name \in LazySlots \cup {"insert"} -> op.arg
      [] op.name = "setTypedArguments" -> "arguments"
      [] OTHER -> "none"

\* C17: a read-only call (a const accessor, contains, typedArguments,
\* typedResult) leaves the node as it was; a const accessor returns the child
\* in its slot, and that is null exactly when no mutable accessor or setter
\* has created the slot: every slot is null on a new node, a mutable accessor
\* or setter makes its slot non-null, and nothing else changes whether a slot
\* is null.
C17_ReadOnlyNeverCreates ==
    /\ op.name \in ReadOnly => obj = was
    /\ op.name \in {"argumentsConst", "resultConst", "childrenConst"} =>
           ret = getConst(was, op.arg).ret
    /\ op.name = "contains" => (ret <=> getConst(was, op.arg).ret # Null)
    /\ op.name = "new" => \A tag \in LazySlots : getConst(obj, tag).ret = Null
    /\ \A tag \in LazySlots :
           IF tag = Written
           THEN getConst(obj, tag).ret # Null
           ELSE getConst(obj, tag).ret = getConst(was, tag).ret

C17_Witness ==
    /\ obj.type = "GlowFunctionBase"
    /\ op.name = "argumentsConst"
    /\ ret = Null
    /\ obj = was
    /\ getConst(obj, "result").ret # Null
    /\ Len(obj.children) = 1

TuplePositions(items) ==
    {i \in 1..Len(items) : items[i].kind = "GlowTupleItemDescription"}

\* C18: typedArguments (typedResult) of a GlowFunctionBase copies the
\* immediate children of the arguments (result) sequence that are tuple item
\* descriptions, in sequence order, skipping the others and never copying a
\* grandchild, and returns their number; 0 when the sequence is absent.
C18_TypedCollectsTupleItems ==
    (op.name \in {"typedArguments", "typedResult"} /\ obj.type = "GlowFunctionBase") =>
        LET items == SlotItems(was, op.arg)
            P     == TuplePositions(items)
        IN  /\ ret.size = Cardinality(P)
            /\ Len(ret.dest) = ret.size
            /\ \A k \in 1..ret.size : ret.dest[k] = items[NthOf(P, k)]
            /\ Ids(ret.dest) \subseteq Ids(items)
            /\ getConst(was, op.arg).ret = Null => ret.size = 0

C18_Witness ==
    /\ obj.type = "GlowFunctionBase"
    /\ op.name = "typedArguments"
    /\ Len(SlotItems(obj, "arguments")) = 2
    /\ SlotItems(obj, "arguments")[1].kind = "Sequence"
    /\ TuplePositions(SlotItems(obj, "arguments")[1].items) # {}
    /\ ret.size = 1
    /\ ret.dest[1] = SlotItems(obj, "arguments")[2]

\* C19: invocationId of a new GlowInvocation is -1; after setInvocationId(id)
\* it is id; every other call, arguments() and setTypedArguments among them,
\* leaves it what it was, so it is the id set last; and the invocationId call
\* returns it.
C19_InvocationId ==
    obj.type = "GlowInvocation" =>
        /\ op.name = "new" => GlowInvocation_invocationId(obj).ret = -1
        /\ op.name = "setInvocationId" => GlowInvocation_invocationId(obj).ret = op.arg
        /\ op.name \notin {"new", "setInvocationId"} =>
               GlowInvocation_invocationId(obj).ret = GlowInvocation_invocationId(was).ret
        /\ op.name = "invocationId" => ret = GlowInvocation_invocationId(was).ret

C19_Witness ==
    /\ obj.type = "GlowInvocation"
    /\ op.name = "setTypedArguments"
    /\ Len(op.arg) = 2
    /\ Len(obj.children) = 2
    /\ GlowInvocation_invocationId(was).ret = 4
    /\ GlowInvocation_invocationId(obj).ret = 4
    /\ ops = 3

----------------------------------------------------------------------------
(* The ByteBuffer of libember_slim.  pMemory is the memory chunk (its cells  *)
(* are numbered from 1 here, so the cell at position p is pMemory[p + 1]),   *)
(* size its length, position the write cursor.  An operation gives the       *)
(* buffer after it and whether it called the throwError callback.            *)

(* The cells of a chunk of memory as allocated. *)
Chunk(size) == [i \in 1..size |-> 0]

(* byteBuffer_init(pThis, pMemory, size) *)
byteBuffer_init(size) ==
    [pMemory |-> Chunk(size), size |-> size, position |-> 0, isDynamic |-> FALSE]

(* byteBuffer_initDynamic(pThis, size) *)
byteBuffer_initDynamic(size) ==
    [pMemory |-> Chunk(size), size |-> size, position |-> 0, isDynamic |-> TRUE]

(* byteBuffer_reset(pThis) *)
byteBuffer_reset(o) ==
    [o |-> [o EXCEPT !.position = 0], ret |-> [error |-> FALSE]]

(* byteBuffer_resize(pThis, size): a dynamic buffer smaller than size is     *)
(* reallocated, which succeeds (allocated) or not.                           *)
byteBuffer_resize(o, size, allocated) ==
    IF ~o.isDynamic \/ size <= o.size THEN [o |-> o, ret |-> [error |-> FALSE]]
    ELSE IF ~allocated THEN [o |-> o, ret |-> [error |-> TRUE]]
    ELSE [o   |-> [o EXCEPT !.pMemory = @ \o Chunk(size - o.size), !.size = size],
          ret |-> [error |-> FALSE]]

(* The size a full dynamic buffer grows to. *)
Grown(size) == IF size = 0 THEN 1 ELSE size + size

(* The store of byteBuffer_add: pMemory[position++] = b. *)
store(o, b) ==
    [o EXCEPT !.pMemory[o.position + 1] = b, !.position = @ + 1]

byteBuffer_add_dropsWhenFull(o, b, allocated) ==
    IF o.position < o.size THEN [o |-> store(o, b), ret |-> [error |-> FALSE]]
    ELSE [o |-> o, ret |-> [error |-> FALSE]]

(* byteBuffer_add(pThis, b): a full fixed buffer calls throwError; a full    *)
(* dynamic buffer grows first, and calls throwError if it cannot.            *)
byteBuffer_add(o, b, allocated) ==
    IF o.position < o.size THEN [o |-> store(o, b), ret |-> [error |-> FALSE]]
    ELSE IF ~o.isDynamic THEN [o |-> o, ret |-> [error |-> TRUE]]
    ELSE LET r == byteBuffer_resize(o, Grown(o.size), allocated)
         IN  IF r.ret.error THEN r
             ELSE [o |-> store(r.o, b), ret |-> [error |-> FALSE]]

(* SpecBuffer: a buffer is initialised, fixed or dynamic, and at most MaxOps *)
(* operations are called on it.                                              *)

BufferBytes == {0, 171, 255}

InitBuffer ==
    /\ dec = StreamDecoder
    /\ calls = <<>>
    /\ input = -1
    /\ before = StreamDecoder
    /\ fired = 0
    /\ raw = <<>>
    /\ closed = TRUE
    /\ n = 0
    /\ ref = NoDecoder
    /\ stream = <<>>
    /\ plan = <<>>
    /\ mode = "buffer"
    /\ \E size \in 0..MaxCapacity :
           obj \in {byteBuffer_init(size), byteBuffer_initDynamic(size)}
    /\ ret = [error |-> FALSE]
    /\ op = [name |-> "init", arg |-> <<>>]
    /\ was = obj
    /\ ops = 0

Add(b, allocated) ==
    Call("add", b, byteBuffer_add(obj, b, allocated))

BufferReset ==
    Call("reset", <<>>, byteBuffer_reset(obj))

Resize(size, allocated) ==
    Call("resize", size, byteBuffer_resize(obj, size, allocated))

NextBuffer ==
    \/ \E b \in BufferBytes, allocated \in BOOLEAN : Add(b, allocated)
    \/ BufferReset
    \/ \E size \in 0..(MaxCapacity + 1), allocated \in BOOLEAN : Resize(size, allocated)

SpecBuffer == InitBuffer /\ [][NextBuffer]_vars

\* C20: position <= size in every reachable state, and the memory is size
\* bytes long; byteBuffer_add on a buffer that is not full stores the byte at
\* the old position, advances position by exactly 1 and changes nothing
\* else; on a full fixed buffer it calls the error callback and writes
\* nothing; and an add that does not call the error callback has stored its
\* byte.
C20_PushNeverTruncates ==
    /\ obj.position <= obj.size
    /\ Len(obj.pMemory) = obj.size
    /\ op.name = "add" =>
           /\ was.position < was.size =>
                  /\ ~ret.error
                  /\ obj = [was EXCEPT !.pMemory[was.position + 1] = op.arg,
                                       !.position = was.position + 1]
           /\ (was.position = was.size /\ ~was.isDynamic) =>
                  /\ ret.error
                  /\ obj = was
           /\ ~ret.error =>
                  /\ obj.position = was.position + 1
                  /\ obj.pMemory[was.position + 1] = op.arg
                  /\ SubSeq(obj.pMemory, 1, was.position) = SubSeq(was.pMemory, 1, was.position)

C20_Witness ==
    /\ op.name = "add"
    /\ ~obj.isDynamic
    /\ obj.size = 2
    /\ obj.position = 2
    /\ obj.pMemory = <<171, 255>>
    /\ ret.error
    /\ ops = 3

----------------------------------------------------------------------------
(* The BER codec of libember (ember/ber).  A util::OctetStream is the        *)
(* sequence of its bytes: encode appends at the end, decode consumes from    *)
(* the front.  A decode gives [ok, value, rest]: ok is FALSE where the       *)
(* decoder reports an invalid encoding, rest is the stream left.             *)

(* The big-endian number of a byte sequence, continuing from acc. *)
RECURSIVE FoldBytes(_, _)
FoldBytes(acc, bytes) ==
    IF bytes = <<>> THEN acc ELSE FoldBytes(acc * 256 + Head(bytes), Tail(bytes))

(* The k low bytes of v, most significant first (two's complement). *)
BigEndian(v, k) == [i \in 1..k |-> (v \div (256 ^ (k - i))) % 256]

(* EncodingTraits<bool> / DecodingTraits<bool> *)
Boolean_encodedLength(value) == 1

Boolean_encode(output, value) == Append(output, IF value THEN 255 ELSE 0)

Boolean_decode(octets, len) ==
    IF len # 1 \/ Len(octets) < 1 THEN [ok |-> FALSE, value |-> FALSE, rest |-> octets]
    ELSE [ok |-> TRUE, value |-> octets[1] # 0, rest |-> Tail(octets)]

(* EncodingTraits<int> / DecodingTraits<int>: the least number of bytes that *)
(* hold the value in two's complement.                                       *)
RECURSIVE Integer_encodedLength_unsigned(_)
Integer_encodedLength_unsigned(value) ==
    IF value \in 0..127 THEN 1
    ELSE IF value \in -128..-1 THEN 1
    ELSE IF value \in 128..255 THEN 1
    ELSE 1 + Integer_encodedLength_unsigned(value \div 256)

RECURSIVE Integer_encodedLength(_)
Integer_encodedLength(value) ==
    IF value \in -128..127 THEN 1
    ELSE 1 + Integer_encodedLength(value \div 256)

Integer_encode(output, value) ==
    output \o BigEndian(value, Integer_encodedLength(value))

Integer_decode(octets, len) ==
    IF len < 1 \/ len > 4 \/ Len(octets) < len THEN [ok |-> FALSE, value |-> 0, rest |-> octets]
    ELSE LET first == IF octets[1] >= 128 THEN octets[1] - 256 ELSE octets[1]
         IN  [ok    |-> TRUE,
              value |-> FoldBytes(first, SubSeq(octets, 2, len)),
              rest  |-> SubSeq(octets, len + 1, Len(octets))]

(* EncodingTraits<std::string> / DecodingTraits<std::string> *)
String_encodedLength(value) == Len(value)

String_encode(output, value) == output \o value

String_decode(octets, len) ==
    IF Len(octets) < len THEN [ok |-> FALSE, value |-> <<>>, rest |-> octets]
    ELSE [ok    |-> TRUE,
          value |-> SubSeq(octets, 1, len),
          rest  |-> SubSeq(octets, len + 1, Len(octets))]

(* Length: a definite length is its number, the indefinite length is         *)
(* Indefinite.  Short form below 128; long form: 0x80 + k, then k bytes.     *)
Indefinite == -1

RECURSIVE LengthBytes(_)
LengthBytes(value) == IF value < 256 THEN 1 ELSE 1 + LengthBytes(value \div 256)

Length_encodedLength(value) ==
    IF value = Indefinite THEN 1
    ELSE IF value < 128 THEN 1
    ELSE 1 + LengthBytes(value)

Length_encode_shortUpTo128(output, value) ==
    IF value = Indefinite THEN Append(output, 128)
    ELSE IF value <= 128 THEN Append(output, value)
    ELSE Append(output, 128 + LengthBytes(value)) \o BigEndian(value, LengthBytes(value))

Length_encode(output, value) ==
    IF value = Indefinite THEN Append(output, 128)
    ELSE IF value < 128 THEN Append(output, value)
    ELSE Append(output, 128 + LengthBytes(value)) \o BigEndian(value, LengthBytes(value))

Length_decode(octets) ==
    IF octets = <<>> THEN [ok |-> FALSE, value |-> 0, rest |-> octets]
    ELSE IF octets[1] < 128 THEN [ok |-> TRUE, value |-> octets[1], rest |-> Tail(octets)]
    ELSE IF octets[1] = 128 THEN [ok |-> TRUE, value |-> Indefinite, rest |-> Tail(octets)]
    ELSE LET k == octets[1] - 128
         IN  IF k > 4 \/ Len(octets) < 1 + k \/ (k = 4 /\ octets[2] >= 128)
             THEN [ok |-> FALSE, value |-> 0, rest |-> octets]
             ELSE [ok    |-> TRUE,
                   value |-> FoldBytes(0, SubSeq(octets, 2, 1 + k)),
                   rest  |-> SubSeq(octets, 2 + k, Len(octets))]

(* Tag: [class, constructed, number].  First byte: class in bits 7-6, the    *)
(* constructed flag in bit 5, the number in bits 4-0, where 31 announces the *)
(* number in the following bytes, 7 bits each, bit 7 set on all but the last.*)
RECURSIVE TagBytes(_)
TagBytes(number) == IF number < 128 THEN 1 ELSE 1 + TagBytes(number \div 128)

Preamble(tag) == tag.class * 64 + (IF tag.constructed THEN 32 ELSE 0)

Tag_encodedLength(tag) ==
    IF tag.number < 31 THEN 1 ELSE 1 + TagBytes(tag.number)

Continuation(number) ==
    LET k == TagBytes(number)
    IN  [i \in 1..k |-> ((number \div (128 ^ (k - i))) % 128) + (IF i < k THEN 128 ELSE 0)]

Tag_encode_inlineUpTo31(output, tag) ==
    IF tag.number <= 31 THEN Append(output, Preamble(tag) + tag.number)
    ELSE Append(output, Preamble(tag) + 31) \o Continuation(tag.number)

Tag_encode(output, tag) ==
    IF tag.number < 31 THEN Append(output, Preamble(tag) + tag.number)
    ELSE Append(output, Preamble(tag) + 31) \o Continuation(tag.number)

(* The number read from continuation bytes: [ok, value, rest]. *)
RECURSIVE ReadContinuation(_, _)
ReadContinuation(acc, octets) ==
    IF octets = <<>> THEN [ok |-> FALSE, value |-> acc, rest |-> octets]
    ELSE IF Head(octets) >= 128
         THEN ReadContinuation(acc * 128 + (Head(octets) - 128), Tail(octets))
         ELSE [ok |-> TRUE, value |-> acc * 128 + Head(octets), rest |-> Tail(octets)]

Tag_decode(octets) ==
    IF octets = <<>>
    THEN [ok |-> FALSE, value |-> [class |-> 0, constructed |-> FALSE, number |-> 0], rest |-> octets]
    ELSE LET b   == octets[1]
             num == IF b % 32 < 31 THEN [ok |-> TRUE, value |-> b % 32, rest |-> Tail(octets)]
                    ELSE ReadContinuation(0, Tail(octets))
         IN  [ok    |-> num.ok,
              value |-> [class |-> b \div 64, constructed |-> (b \div 32) % 2 = 1,
                         number |-> num.value],
              rest  |-> num.rest]

(* The generic functions of CodecTraits.hpp: each hands over to the traits   *)
(* of the kind of its value.                                                 *)

encodedLength_ofBoolean(kind, value) == Boolean_encodedLength(value)

(* encodedLength(value) *)
encodedLength(kind, value) ==
    CASE kind = "Boolean" -> Boolean_encodedLength(value)
      [] kind = "Integer" -> Integer_encodedLength(value)
      [] kind = "String"  -> String_encodedLength(value)
      [] kind = "Length"  -> Length_encodedLength(value)
      [] kind = "Tag"     -> Tag_encodedLength(value)

(* encode(output, value) *)
encode(kind, output, value) ==
    CASE kind = "Boolean" -> Boolean_encode(output, value)
      [] kind = "Integer" -> Integer_encode(output, value)
      [] kind = "String"  -> String_encode(output, value)
      [] kind = "Length"  -> Length_encode(output, value)
      [] kind = "Tag"     -> Tag_encode(output, value)

(* DecodingTraits<ValueType>::signature::arity *)
arity(kind) == IF kind \in {"Length", "Tag"} THEN 1 ELSE 2

(* decode(input, encodedLength), for the kinds of arity 2 *)
decode_arity2(kind, octets, len) ==
    CASE kind = "Boolean" -> Boolean_decode(octets, len)
      [] kind = "Integer" -> Integer_decode(octets, len)
      [] kind = "String"  -> String_decode(octets, len)

(* decode(input), for the kinds of arity 1 *)
decode_arity1(kind, octets) ==
    CASE kind = "Length" -> Length_decode(octets)
      [] kind = "Tag"    -> Tag_decode(octets)

----------------------------------------------------------------------------
(* SpecCodec: a value of a scalar kind is encoded at the end of a stream,    *)
(* the bytes written are decoded from a stream in which other bytes follow   *)
(* them, and the decoded value is encoded again into an empty stream.  obj   *)
(* is [kind, value, output, octets, trailing]: the value, the stream written *)
(* to, the stream read from and the bytes that follow the value in it.       *)

Around(center) == {center - d : d \in 0..MaxDelta} \cup {center + d : d \in 0..MaxDelta}

IntegerValues ==
    UNION {Around(c) : c \in {0, 128, -128, 32768, -32768, 8388608, -8388608}}
        \cup {2147483647 - d : d \in 0..MaxDelta}
        \cup {(-2147483647 - 1) + d : d \in 0..MaxDelta}

LengthValues ==
    {Indefinite} \cup
    {v \in UNION {Around(c) : c \in {2, 128, 256, 65536, 16777216}} : v >= 0}

TagNumbers == {v \in UNION {Around(c) : c \in {2, 31, 128, 16384}} : v >= 0}

TagValues == [class : 0..3, constructed : BOOLEAN, number : TagNumbers]

StringValues == SeqsUpTo({0, 65}, MaxString)

CodecInputs ==
    [kind : {"Boolean"}, value : BOOLEAN]
        \cup [kind : {"Integer"}, value : IntegerValues]
        \cup [kind : {"String"}, value : StringValues]
        \cup [kind : {"Length"}, value : LengthValues]
        \cup [kind : {"Tag"}, value : TagValues]

InitCodec ==
    /\ dec = StreamDecoder
    /\ calls = <<>>
    /\ input = -1
    /\ before = StreamDecoder
    /\ fired = 0
    /\ raw = <<>>
    /\ closed = TRUE
    /\ n = 0
    /\ ref = NoDecoder
    /\ stream = <<>>
    /\ plan = <<>>
    /\ mode = "codec"
    /\ \E c \in CodecInputs, prefix \in {<<>>, <<170>>}, trailing \in {<<>>, <<129, 1>>} :
           obj = [kind |-> c.kind, value |-> c.value, output |-> prefix,
                  octets |-> <<>>, trailing |-> trailing]
    /\ ret = <<>>
    /\ op = [name |-> "new", arg |-> <<>>]
    /\ was = obj
    /\ ops = 0

(* The bytes the encode of the scenario appended to the stream of o, which   *)
(* held before bytes when it started.                                        *)
Appended(o, before0) == SubSeq(o.output, Len(before0.output) + 1, Len(o.output))

CodecEncode ==
    /\ op.name = "new"
    /\ Call("encode", obj.value,
            [o   |-> [obj EXCEPT !.output = encode(obj.kind, obj.output, obj.value)],
             ret |-> <<>>])

CodecDecode ==
    /\ op.name = "encode"
    /\ LET octets == Appended(obj, was) \o obj.trailing
           r      == IF arity(obj.kind) = 2
                     THEN decode_arity2(obj.kind, octets, encodedLength(obj.kind, obj.value))
                     ELSE decode_arity1(obj.kind, octets)
       IN  Call("decode", octets,
                [o   |-> [obj EXCEPT !.octets = r.rest, !.output = Appended(obj, was)],
                 ret |-> [ok |-> r.ok, value |-> r.value]])

CodecReEncode ==
    /\ op.name = "decode"
    /\ Call("reencode", ret.value,
            [o   |-> [obj EXCEPT !.output = encode(obj.kind, <<>>, ret.value)],
             ret |-> ret])

NextCodec ==
    \/ CodecEncode
    \/ CodecDecode
    \/ CodecReEncode

SpecCodec == InitCodec /\ [][NextCodec]_vars

Encoded == IF op.name = "encode" THEN Appended(obj, was) ELSE obj.output

\* C22: a signed integer is encoded in the least number of two's complement
\* bytes: the first byte is not a 0x00 before a byte with bit 7 clear, nor a
\* 0xFF before a byte with bit 7 set; 0, 127, -1 and -128 take 1 byte, 128
\* and -129 take 2, 2147483647 and -2147483648 take 4; and decoding the
\* encoding gives the integer back.
C22_IntegerMinimal ==
    (obj.kind = "Integer" /\ op.name \in {"encode", "decode"}) =>
        /\ Len(Encoded) = encodedLength("Integer", obj.value)
        /\ Len(Encoded) > 1 =>
               /\ ~(Encoded[1] = 0 /\ Encoded[2] < 128)
               /\ ~(Encoded[1] = 255 /\ Encoded[2] >= 128)
        /\ obj.value \in {0, 127, -1, -128} => Len(Encoded) = 1
        /\ obj.value \in {128, -129} => Len(Encoded) = 2
        /\ obj.value \in {2147483647, -2147483647 - 1} => Len(Encoded) = 4
        /\ op.name = "decode" => ret.ok /\ ret.value = obj.value

C22_Witness ==
    /\ obj.kind = "Integer"
    /\ op.name = "decode"
    /\ obj.value = -2147483647 - 1
    /\ obj.output = <<128, 0, 0, 0>>
    /\ ret.value = obj.value

\* C23: a definite length encoded and then decoded is the same length; below
\* 128 it is encoded in exactly 1 byte, the length itself; from 128 on the
\* first byte has bit 7 set and counts the bytes that follow, which are the
\* length, most significant byte first.
C23_LengthRoundTrip ==
    (obj.kind = "Length" /\ obj.value # Indefinite /\ op.name \in {"encode", "decode"}) =>
        /\ obj.value < 128 => Encoded = <<obj.value>>
        /\ obj.value >= 128 =>
               /\ Encoded[1] > 128
               /\ Len(Encoded) = 1 + (Encoded[1] - 128)
               /\ FoldBytes(0, Tail(Encoded)) = obj.value
        /\ op.name = "decode" =>
               /\ ret.ok
               /\ ret.value = obj.value
               /\ obj.octets = obj.trailing

C23_Witness ==
    /\ obj.kind = "Length"
    /\ op.name = "decode"
    /\ obj.value = 16777215
    /\ obj.output = <<131, 255, 255, 255>>
    /\ ret.value = 16777215
    /\ obj.octets = <<129, 1>>

\* C24: a tag (class, constructed flag, number) encoded and then decoded is
\* the same triple, and the decode consumes exactly the bytes written; a
\* number up to 30 takes one byte, a number from 31 on takes the first byte
\* with 31 in its low five bits and continuation bytes, bit 7 set on all but
\* the last.
C24_TagRoundTrip ==
    (obj.kind = "Tag" /\ op.name \in {"encode", "decode"}) =>
        /\ Encoded[1] \div 64 = obj.value.class
        /\ ((Encoded[1] \div 32) % 2 = 1) = obj.value.constructed
        /\ obj.value.number <= 30 => Len(Encoded) = 1 /\ Encoded[1] % 32 = obj.value.number
        /\ obj.value.number >= 31 =>
               /\ Len(Encoded) > 1
               /\ Encoded[1] % 32 = 31
               /\ \A i \in 2..(Len(Encoded) - 1) : Encoded[i] >= 128
               /\ Encoded[Len(Encoded)] < 128
        /\ op.name = "decode" =>
               /\ ret.ok
               /\ ret.value = obj.value
               /\ Len(op.arg) - Len(obj.octets) = Len(Encoded)
               /\ obj.octets = obj.trailing

C24_Witness ==
    /\ obj.kind = "Tag"
    /\ op.name = "decode"
    /\ obj.value = [class |-> 2, constructed |-> TRUE, number |-> 16383]
    /\ obj.output = <<191, 255, 127>>
    /\ ret.value = obj.value
    /\ obj.octets = <<129, 1>>

----------------------------------------------------------------------------
\* C25: in every reachable state of the decoder the running checksum is the
\* CRC folded from 0xFFFF over the bytes the buffer holds, in order; with an
\* empty buffer it is 0xFFFF.
C25_ChecksumCoherent ==
    /\ dec.m_crc = CrcFrom(CrcInit, dec.m_bytes)
    /\ dec.m_bytes = <<>> => dec.m_crc = CrcInit

C25_Witness ==
    /\ dec.m_bytes = <<0, 255, 1>>
    /\ dec.m_crc = CrcFrom(CrcInit, <<0, 255, 1>>)
    /\ Len(calls) = 1
    /\ mode = "free"

----------------------------------------------------------------------------
(* SpecBare: one or two frames are sent without a start marker to a new      *)
(* decoder: the stuffed payload and checksum, then the end marker.           *)

BareBytes == {0, 1, EoF}

BareFrame(p) == Stuff(p \o Checksum(p)) \o <<EoF>>

InitBare ==
    \E ps \in SeqsUpTo(SeqsUpTo(BareBytes, MaxBarePayload), 2) :
        /\ ps # <<>>
        /\ Prepared("bare", [payloads |-> ps],
                    Concat([i \in 1..Len(ps) |-> BareFrame(ps[i])]))

NextBare == FeedStream

SpecBare == InitBare /\ [][NextBare]_vars

(* The number of frames of the plan fed whole: each ends with the only       *)
(* unescaped end marker it holds.                                            *)
BareDone ==
    Len(plan.payloads) - Cardinality({i \in 1..Len(stream) : stream[i] = EoF})

\* C26: a decoder in the reset state, new or just after an end marker, that
\* receives a payload, its checksum and an end marker with no start marker
\* before them invokes the callback with that payload: no start marker is
\* ever fed, and the callbacks made are the payloads of the frames fed so
\* far, in order; the bytes of a frame not yet ended are in the buffer.
C26_NoStartMarkerNeeded ==
    mode = "bare" =>
        /\ calls = [i \in 1..BareDone |-> Delivery(plan.payloads[i])]
        /\ closed => dec.m_bytes = <<>> /\ ~dec.m_escape
        /\ ~closed => /\ BoF \notin {raw[i] : i \in 1..Len(raw)}
                      /\ dec.m_bytes = Values(Unstuff(raw))

C26_Witness ==
    /\ mode = "bare"
    /\ stream = <<>>
    /\ plan.payloads = << <<1>>, <<0, EoF>> >>
    /\ calls = << Delivery(<<1>>), Delivery(<<0, EoF>>) >>
    /\ n = Len(BareFrame(<<1>>)) + Len(BareFrame(<<0, EoF>>))

----------------------------------------------------------------------------
\* C27: setTypedArguments with an empty range of values still creates the
\* arguments slot: afterwards the read-only arguments() gives a sequence,
\* not null, which is empty, and typedArguments returns 0 and copies nothing,
\* also when the invocation had no arguments slot before.
C27_EmptySetMaterializes ==
    (op.name = "setTypedArguments" /\ op.arg = <<>>) =>
        /\ GlowInvocation_argumentsConst(obj).ret # Null
        /\ ItemsOf(obj, GlowInvocation_argumentsConst(obj).ret) = <<>>
        /\ GlowInvocation_typedArguments(obj).ret = [dest |-> <<>>, size |-> 0]
        /\ Len(obj.children) =
               Len(was.children) + (IF GlowInvocation_argumentsConst(was).ret = Null THEN 1 ELSE 0)

C27_Witness ==
    /\ op.name = "setTypedArguments"
    /\ op.arg = <<>>
    /\ GlowInvocation_argumentsConst(was).ret = Null
    /\ GlowInvocation_argumentsConst(obj).ret # Null
    /\ SlotItems(obj, "arguments") = <<>>
    /\ Len(obj.children) = 2

====
